---- MODULE Spec2Model ----
(***************************************************************************)
(* Model of miro.data.item (src/tv/lib/data/item.py): the column registry, *)
(* the join query of fetch_item_infos and the derived properties of       *)
(* ItemInfo.  Python values are tagged records, so that None, integers,    *)
(* unicode strings, encoded filenames, floats, datetimes and timedeltas    *)
(* stay distinct values; the outcome of evaluating a property is either a  *)
(* returned value or a raised exception.  The last sections model         *)
(* Browser.should_load_url (src/tv/portable/frontends/widgets/browser.py). *)
(***************************************************************************)
EXTENDS Integers, Sequences, FiniteSets, TLC

VARIABLES
    db,                 \* the relational store: item, feed, remote_downloader, icon_cache
    fs,                 \* the paths that exist on disk (fileutil.exists)
    file_size,          \* the size of each file on disk (os.path.getsize)
    expire_after_x_days,\* app.config.get(prefs.EXPIRE_AFTER_X_DAYS)
    filenames_unicode,  \* PlatformFilenameType == unicode on this platform
    infos,              \* the list last returned by fetch_item_infos
    fetched_ids,        \* the item_ids argument of that call
    accessed,           \* the ItemInfo whose property was last read (None before)
    result,             \* what that read gave: the property and its outcome
    browser             \* the Browser widget: its callback, the backend, the UI thread

vars == <<db, fs, file_size, expire_after_x_days, filenames_unicode, infos, fetched_ids,
          accessed, result, browser>>

----------------------------------------------------------------------------
(* Bounds of the model. *)

MaxItemId == 2
MaxCount == 7
MaxSize == 3
MaxTime == 2
MaxLoads == 1

----------------------------------------------------------------------------
(* Python values and outcomes. *)

None == [t |-> "None"]
PyBool(b) == [t |-> "bool", v |-> b]
PyInt(n) == [t |-> "int", v |-> n]
PyUnicode(s) == [t |-> "unicode", v |-> s]
PyBytes(s) == [t |-> "str", v |-> s]
PyDatetime(n) == [t |-> "datetime", v |-> n]
PyTimedelta(n) == [t |-> "timedelta", v |-> n]

Return(v) == [kind |-> "return", value |-> v]
Raise(e) == [kind |-> "raise", exc |-> e]

RECURSIVE GCD(_, _)
GCD(a, b) == IF b = 0 THEN a ELSE GCD(b, a % b)

\* A float that is the quotient of two integers, kept as a reduced fraction.
PyFloat(n, d) == [t |-> "float", n |-> n \div GCD(n, d), d |-> d \div GCD(n, d)]

\* bool(v) as Python's `if v`, `v and ...`, `not v` take it.
Truthy(v) ==
    CASE v.t = "None" -> FALSE
      [] v.t = "bool" -> v.v
      [] v.t = "int" -> v.v # 0
      [] v.t = "unicode" -> v.v # ""
      [] v.t = "str" -> v.v # ""
      [] v.t = "float" -> v.n # 0
      [] OTHER -> TRUE

\* Python 2 ordering `v > 0`: None sorts below every number.
GreaterThanZero(v) ==
    CASE v.t = "None" -> FALSE
      [] v.t = "int" -> v.v > 0
      [] v.t = "bool" -> v.v
      [] v.t = "float" -> v.n > 0
      [] OTHER -> TRUE

----------------------------------------------------------------------------
(* The column registry.  Of the columns _column_info lists, the model      *)
(* keeps, in their order, those the modelled properties read.              *)

SelectColumn(table, column, attr_name) ==
    [table |-> table, column |-> column, attr_name |-> attr_name]

column_info ==
    << SelectColumn("item", "id", "id"),
       SelectColumn("item", "feed_id", "feed_id"),
       SelectColumn("item", "parent_id", "parent_id"),
       SelectColumn("item", "downloader_id", "downloader_id"),
       SelectColumn("item", "is_file_item", "is_file_item"),
       SelectColumn("item", "keep", "keep"),
       SelectColumn("item", "watched_time", "watched_time"),
       SelectColumn("item", "is_container_item", "is_container_item"),
       SelectColumn("item", "screenshot", "screenshot"),
       SelectColumn("item", "enclosure_size", "enclosure_size"),
       SelectColumn("item", "filename", "raw_filename"),
       SelectColumn("item", "play_count", "play_count"),
       SelectColumn("item", "skip_count", "skip_count"),
       SelectColumn("item", "cover_art", "cover_art"),
       SelectColumn("item", "file_type", "file_type"),
       SelectColumn("feed", "orig_url", "feed_url"),
       SelectColumn("feed", "expire", "feed_expire"),
       SelectColumn("feed", "expireTime", "feed_expire_time"),
       SelectColumn("icon_cache", "filename", "raw_icon_cache_filename"),
       SelectColumn("remote_downloader", "state", "downloader_state"),
       SelectColumn("remote_downloader", "type", "downloader_type"),
       SelectColumn("remote_downloader", "current_size", "downloaded_size"),
       SelectColumn("remote_downloader", "total_size", "downloader_size"),
       SelectColumn("remote_downloader", "upload_size", "upload_size") >>

\* ItemRow: the namedtuple whose fields are the attr_names, in registry order.
ItemRowFields == [i \in DOMAIN column_info |-> column_info[i].attr_name]

ItemRow(row_data) ==
    [a \in {ItemRowFields[i] : i \in DOMAIN ItemRowFields} |->
        row_data[CHOOSE i \in DOMAIN ItemRowFields : ItemRowFields[i] = a]]

ItemInfo(row_data) == ItemRow(row_data)

----------------------------------------------------------------------------
(* The relational store.  Each table maps a primary key to the row with    *)
(* that id; a row maps column names to values.                             *)

Tables == {"item", "feed", "remote_downloader", "icon_cache"}

\* join_sql() with inner joins in place of the left joins.
join_sql_inner ==
    << [kind |-> "INNER", table |-> "feed", on |-> "feed_id"],
       [kind |-> "INNER", table |-> "remote_downloader", on |-> "downloader_id"],
       [kind |-> "INNER", table |-> "icon_cache", on |-> "icon_cache_id"] >>

\* join_sql(): the tables joined to item, each ON <table>.id = item.<on>.
join_sql ==
    << [kind |-> "LEFT", table |-> "feed", on |-> "feed_id"],
       [kind |-> "LEFT", table |-> "remote_downloader", on |-> "downloader_id"],
       [kind |-> "LEFT", table |-> "icon_cache", on |-> "icon_cache_id"] >>

\* SQL equality: NULL equals nothing.
SqlEq(a, b) == a # None /\ b # None /\ a = b

\* The rows of a joined table that match an item row.
Matches(store, item_row, join) ==
    {k \in DOMAIN store[join.table] :
        SqlEq(store[join.table][k].id, item_row[join.on])}

\* The item rows the joins keep: a LEFT JOIN keeps a row without a match.
Kept(store, k) ==
    \A j \in DOMAIN join_sql :
        join_sql[j].kind = "LEFT" \/ Matches(store, store.item[k], join_sql[j]) # {}

\* The value of <table>.<column> in the joined row of item k; the columns
\* of a joined table without a matching row are NULL.
Cell(store, k, table, column) ==
    IF table = "item" THEN store.item[k][column]
    ELSE LET join == join_sql[CHOOSE j \in DOMAIN join_sql : join_sql[j].table = table]
             m == Matches(store, store.item[k], join)
         IN IF m = {} THEN None ELSE store[table][CHOOSE x \in m : TRUE][column]

\* SELECT <columns> ...: the result row of item k, one value per column of
\* the registry, in its order.
SelectRow(store, k) ==
    [i \in DOMAIN column_info |->
        Cell(store, k, column_info[i].table, column_info[i].column)]

\* The WHERE clause left out when no id is given.
WhereIdIn_unfiltered(store, item_ids) ==
    IF item_ids = {} THEN DOMAIN store.item
    ELSE {k \in DOMAIN store.item :
             \E id \in item_ids : SqlEq(store.item[k].id, PyInt(id))}

\* WHERE item.id IN (<item_ids>)
WhereIdIn(store, item_ids) ==
    {k \in DOMAIN store.item :
        \E id \in item_ids : SqlEq(store.item[k].id, PyInt(id))}

\* The orders in which the store may return the rows of a set.
Orderings(S) ==
    {s \in [1..Cardinality(S) -> S] :
        \A i, j \in 1..Cardinality(S) : i # j => s[i] # s[j]}

\* connection.execute(sql) for the SELECT built from `item_ids`: the outcomes
\* the store may give, one per order of the result rows.  SQLite's grammar
\* takes an IN list of any length, the empty list included.
execute(connection, item_ids) ==
    LET rows == {k \in WhereIdIn(connection, item_ids) : Kept(connection, k)}
    IN {Return([i \in DOMAIN order |-> SelectRow(connection, order[i])]) :
            order \in Orderings(rows)}

\* fetch_item_infos(connection, item_ids): the outcomes the call may have.
fetch_item_infos(connection, item_ids) ==
    {IF rows.kind = "raise" THEN rows
     ELSE Return([i \in DOMAIN rows.value |-> ItemInfo(rows.value[i])]) :
        rows \in execute(connection, item_ids)}

----------------------------------------------------------------------------
(* Helpers of the derived properties. *)

\* `column == 'literal'` on a text column: equal text, whatever the string type.
StrEq(v, s) == v.t \in {"unicode", "str"} /\ v.v = s

\* _unicode_to_filename: encode to utf-8 unless the platform's filenames are unicode.
unicode_to_filename(unicode_value) ==
    IF unicode_value # None /\ ~filenames_unicode
    THEN PyBytes(unicode_value.v)
    ELSE unicode_value

\* fileutil.exists(path)
exists(path) == path.v \in fs

\* resources.path(relative_path)
resources_path(relative_path) == [t |-> "resource", v |-> relative_path]

\* The names bound at module level in item.py.
ModuleGlobals ==
    {"collections", "datetime", "os", "app", "displaytext", "filetypes",
     "fileutil", "prefs", "schema", "util", "resources", "PlatformFilenameType",
     "SelectColumn", "_column_info", "column_info", "join_sql", "ItemRow",
     "_unicode_to_filename", "ItemInfo", "fetch_item_infos"}

\* Reading a name that is no local of the function: a global of the module,
\* or NameError.
LoadGlobal(name) ==
    IF name \in ModuleGlobals THEN Return([t |-> "global", v |-> name])
    ELSE Raise("NameError")

\* datetime + timedelta
DatetimeAdd(a, b) ==
    IF a.t = "datetime" /\ b.t = "timedelta" THEN Return(PyDatetime(a.v + b.v))
    ELSE Raise("TypeError")

\* float(v)
ToFloat(v) ==
    CASE v.t = "int" -> Return(PyFloat(v.v, 1))
      [] v.t = "float" -> Return(v)
      [] v.t = "bool" -> Return(PyFloat(IF v.v THEN 1 ELSE 0, 1))
      [] OTHER -> Raise("TypeError")

\* <float> / v
FloatDiv(f, v) ==
    CASE v.t = "int" ->
            IF v.v = 0 THEN Raise("ZeroDivisionError")
            ELSE Return(PyFloat(f.n, f.d * v.v))
      [] OTHER -> Raise("TypeError")

\* <float> * <int> and <int> - <float>
FloatMulInt(f, n) == PyFloat(f.n * n, f.d)
IntSubFloat(n, f) == PyFloat(n * f.d - f.n, f.d)

\* int(f): truncation toward zero.
IntOfFloat(f) == IF f.n >= 0 THEN f.n \div f.d ELSE -((-f.n) \div f.d)

Min(a, b) == IF a <= b THEN a ELSE b
Max(a, b) == IF a >= b THEN a ELSE b

\* "%0.2f" % f for f >= 0: two decimals, ties to even.
Format02f(f) ==
    LET q == (100 * f.n) \div f.d
        r == (100 * f.n) % f.d
        h == IF 2 * r > f.d \/ (2 * r = f.d /\ q % 2 = 1) THEN q + 1 ELSE q
        cents == h % 100
    IN PyBytes(ToString(h \div 100) \o "." \o
               (IF cents < 10 THEN "0" ELSE "") \o ToString(cents))

----------------------------------------------------------------------------
(* The derived properties of ItemInfo: each gives an outcome. *)

filename(self) == unicode_to_filename(self.raw_filename)

has_filename(self) == self.raw_filename # None

icon_cache_filename(self) == unicode_to_filename(self.raw_icon_cache_filename)

cover_art_filename(self) == unicode_to_filename(self.cover_art)

is_torrent(self) == StrEq(self.downloader_type, "BitTorrent")

\* `self.is_torrent and self.is_container_item`
is_torrent_folder(self) ==
    IF is_torrent(self) THEN self.is_container_item ELSE PyBool(FALSE)

\* thumbnail returning the screenshot without probing the disk for it.
thumbnail_unprobed_screenshot(self) ==
    IF Truthy(self.cover_art) /\ exists(cover_art_filename(self))
    THEN Return(cover_art_filename(self))
    ELSE IF self.raw_icon_cache_filename # None /\ exists(icon_cache_filename(self))
    THEN Return(icon_cache_filename(self))
    ELSE IF Truthy(self.screenshot)
    THEN Return(self.screenshot)
    ELSE IF Truthy(self.is_container_item)
    THEN Return(resources_path("images/thumb-default-folder.png"))
    ELSE IF StrEq(self.file_type, "audio")
    THEN Return(resources_path("images/thumb-default-audio.png"))
    ELSE Return(resources_path("images/thumb-default-video.png"))

\* thumbnail trying the icon cache before the cover art.
thumbnail_icon_cache_first(self) ==
    IF self.raw_icon_cache_filename # None /\ exists(icon_cache_filename(self))
    THEN Return(icon_cache_filename(self))
    ELSE IF Truthy(self.cover_art) /\ exists(cover_art_filename(self))
    THEN Return(cover_art_filename(self))
    ELSE IF Truthy(self.screenshot) /\ exists(self.screenshot)
    THEN Return(self.screenshot)
    ELSE IF Truthy(self.is_container_item)
    THEN Return(resources_path("images/thumb-default-folder.png"))
    ELSE IF StrEq(self.file_type, "audio")
    THEN Return(resources_path("images/thumb-default-audio.png"))
    ELSE Return(resources_path("images/thumb-default-video.png"))

thumbnail(self) ==
    IF Truthy(self.cover_art) /\ exists(cover_art_filename(self))
    THEN Return(cover_art_filename(self))
    ELSE IF self.raw_icon_cache_filename # None /\ exists(icon_cache_filename(self))
    THEN Return(icon_cache_filename(self))
    ELSE IF Truthy(self.screenshot) /\ exists(self.screenshot)
    THEN Return(self.screenshot)
    ELSE IF Truthy(self.is_container_item)
    THEN Return(resources_path("images/thumb-default-folder.png"))
    ELSE IF StrEq(self.file_type, "audio")
    THEN Return(resources_path("images/thumb-default-audio.png"))
    ELSE Return(resources_path("images/thumb-default-video.png"))

\* expiration_date taking an unknown feed_expire as "never expires".
expiration_date_unknown_ignored(self) ==
    IF self.watched_time = None \/ ~has_filename(self) \/ Truthy(self.keep)
    THEN Return(None)
    ELSE IF StrEq(self.feed_expire, "never")
    THEN Return(None)
    ELSE IF StrEq(self.feed_expire, "feed")
    THEN LET expire_time == LoadGlobal("feed_expire_time")
         IN IF expire_time.kind = "raise" THEN expire_time
            ELSE DatetimeAdd(self.watched_time, expire_time.value)
    ELSE IF StrEq(self.feed_expire, "system")
    THEN LET days == expire_after_x_days
         IN IF days <= 0 THEN Return(None)
            ELSE DatetimeAdd(self.watched_time, PyTimedelta(days))
    ELSE Return(None)

\* expiration_date with `days < 0` for `days <= 0`.
expiration_date_zero_days_expire(self) ==
    IF self.watched_time = None \/ ~has_filename(self) \/ Truthy(self.keep)
    THEN Return(None)
    ELSE IF StrEq(self.feed_expire, "never")
    THEN Return(None)
    ELSE IF StrEq(self.feed_expire, "feed")
    THEN LET expire_time == LoadGlobal("feed_expire_time")
         IN IF expire_time.kind = "raise" THEN expire_time
            ELSE DatetimeAdd(self.watched_time, expire_time.value)
    ELSE IF StrEq(self.feed_expire, "system")
    THEN LET days == expire_after_x_days
         IN IF days < 0 THEN Return(None)
            ELSE DatetimeAdd(self.watched_time, PyTimedelta(days))
    ELSE Raise("AssertionError")

expiration_date(self) ==
    IF self.watched_time = None \/ ~has_filename(self) \/ Truthy(self.keep)
    THEN Return(None)
    ELSE IF StrEq(self.feed_expire, "never")
    THEN Return(None)
    ELSE IF StrEq(self.feed_expire, "feed")
    THEN LET expire_time == LoadGlobal("feed_expire_time")
         IN IF expire_time.kind = "raise" THEN expire_time
            ELSE DatetimeAdd(self.watched_time, expire_time.value)
    ELSE IF StrEq(self.feed_expire, "system")
    THEN LET days == expire_after_x_days
         IN IF days <= 0 THEN Return(None)
            ELSE DatetimeAdd(self.watched_time, PyTimedelta(days))
    ELSE Raise("AssertionError")

is_download(self) ==
    StrEq(self.downloader_state, "downloading") \/ StrEq(self.downloader_state, "paused")

is_paused(self) == StrEq(self.downloader_state, "paused")

is_seeding(self) == StrEq(self.downloader_state, "uploading")

is_failed_download(self) == StrEq(self.downloader_state, "failed")

\* download_progress testing the total size before the downloaded size.
download_progress_total_first(self) ==
    IF self.downloaded_size = None \/ self.downloader_size = None
    THEN Return(None)
    ELSE IF self.downloaded_size \in {PyInt(0), None}
    THEN Return(PyFloat(0, 1))
    ELSE LET f == ToFloat(self.downloaded_size)
         IN IF f.kind = "raise" THEN f ELSE FloatDiv(f.value, self.downloader_size)

download_progress(self) ==
    IF self.downloaded_size \in {PyInt(0), None}
    THEN Return(PyFloat(0, 1))
    ELSE IF self.downloaded_size = None \/ self.downloader_size = None
    THEN Return(None)
    ELSE LET f == ToFloat(self.downloaded_size)
         IN IF f.kind = "raise" THEN f ELSE FloatDiv(f.value, self.downloader_size)

upload_ratio(self) ==
    LET f == ToFloat(self.upload_size)
    IN IF f.kind = "raise" THEN f ELSE FloatDiv(f.value, self.downloaded_size)

upload_ratio_text(self) ==
    LET r == upload_ratio(self)
    IN IF r.kind = "raise" THEN r ELSE Return(Format02f(r.value))

\* os.path.getsize(path)
getsize(path) ==
    IF path.v \in fs THEN Return(PyInt(file_size[path.v])) ELSE Raise("OSError")

\* size going on to the downloader and enclosure sizes when the lookup fails.
size_falls_through(self) ==
    LET on_disk == IF has_filename(self) THEN getsize(filename(self)) ELSE Raise("OSError")
    IN IF on_disk.kind = "return" THEN on_disk
       ELSE IF is_download(self) THEN Return(self.downloader_size)
       ELSE Return(self.enclosure_size)

size(self) ==
    IF has_filename(self)
    THEN LET on_disk == getsize(filename(self))
         IN IF on_disk.kind = "raise" /\ on_disk.exc = "OSError" THEN Return(None)
            ELSE on_disk
    ELSE IF is_download(self) THEN Return(self.downloader_size)
    ELSE Return(self.enclosure_size)

has_parent(self) == self.parent_id # None

\* is_external true as soon as either test holds, whatever is_file_item is.
is_external_either(self) ==
    Return(PyBool(has_parent(self) \/ StrEq(self.feed_url, "dtv:manualFeed")))

is_external(self) ==
    IF Truthy(self.is_file_item)
    THEN Return(PyBool(has_parent(self)))
    ELSE Return(PyBool(StrEq(self.feed_url, "dtv:manualFeed")))

SKIP_FACTOR == PyFloat(3, 2)
UNSKIPPED_FACTOR == 2

\* auto_rating without the lower clamp max(1, ...).
auto_rating_unclamped_below(self) ==
    IF GreaterThanZero(self.play_count)
    THEN IF GreaterThanZero(self.skip_count)
         THEN Return(PyInt(Min(5, IntOfFloat(
                  IntSubFloat(self.play_count.v,
                              FloatMulInt(SKIP_FACTOR, self.skip_count.v))))))
         ELSE Return(PyInt(Min(5, UNSKIPPED_FACTOR * self.play_count.v)))
    ELSE IF GreaterThanZero(self.skip_count)
    THEN Return(PyInt(1))
    ELSE Return(None)

auto_rating(self) ==
    IF GreaterThanZero(self.play_count)
    THEN IF GreaterThanZero(self.skip_count)
         THEN Return(PyInt(Min(5, Max(1, IntOfFloat(
                  IntSubFloat(self.play_count.v,
                              FloatMulInt(SKIP_FACTOR, self.skip_count.v)))))))
         ELSE Return(PyInt(Min(5, UNSKIPPED_FACTOR * self.play_count.v)))
    ELSE IF GreaterThanZero(self.skip_count)
    THEN Return(PyInt(1))
    ELSE Return(None)

----------------------------------------------------------------------------
(* Reading a property of an ItemInfo. *)

DownloaderProperties ==
    {"is_download", "is_paused", "is_seeding", "is_failed_download", "is_torrent",
     "is_torrent_folder", "download_progress", "upload_ratio", "upload_ratio_text",
     "downloader_state", "downloader_type", "downloaded_size", "downloader_size",
     "upload_size"}

getattr(self, name) ==
    CASE name = "thumbnail" -> thumbnail(self)
      [] name = "expiration_date" -> expiration_date(self)
      [] name = "auto_rating" -> auto_rating(self)
      [] name = "size" -> size(self)
      [] name = "is_external" -> is_external(self)
      [] name = "download_progress" -> download_progress(self)
      [] name = "upload_ratio" -> upload_ratio(self)
      [] name = "upload_ratio_text" -> upload_ratio_text(self)
      [] name = "is_download" -> Return(PyBool(is_download(self)))
      [] name = "is_paused" -> Return(PyBool(is_paused(self)))
      [] name = "is_seeding" -> Return(PyBool(is_seeding(self)))
      [] name = "is_failed_download" -> Return(PyBool(is_failed_download(self)))
      [] name = "is_torrent" -> Return(PyBool(is_torrent(self)))
      [] name = "is_torrent_folder" -> Return(is_torrent_folder(self))
      [] OTHER -> Return(self[name])

----------------------------------------------------------------------------
(* State machine: the store is queried, then properties of the returned    *)
(* records are read.                                                       *)

ItemIds == 1..MaxItemId

NoResult == [op |-> "none", outcome |-> Return(None)]

\* The Browser widget with no URL offered yet: should_load_url is not
\* running, nothing was sent to the backend, no call waits for the UI thread.
BrowserIdle ==
    [pc |-> "idle", url |-> None, retval |-> None, returned |-> <<>>,
     sent |-> <<>>, ui_queue |-> <<>>, handled |-> <<>>]

OptionalId == {None, PyInt(1)}

\* The item row with primary key k and the given foreign keys.
ItemRowOf(k, feed_id, downloader_id, icon_cache_id) ==
    [id |-> PyInt(k), feed_id |-> feed_id, parent_id |-> None,
     downloader_id |-> downloader_id, icon_cache_id |-> icon_cache_id,
     is_file_item |-> PyBool(FALSE), keep |-> PyBool(k % 2 = 0),
     watched_time |-> PyDatetime(1), is_container_item |-> PyBool(FALSE),
     screenshot |-> None, enclosure_size |-> PyInt(3),
     filename |-> PyUnicode("movie.avi"), play_count |-> PyInt(k),
     skip_count |-> PyInt(0), cover_art |-> None, file_type |-> PyUnicode("video")]

FeedRows ==
    (1 :> [id |-> PyInt(1), orig_url |-> PyUnicode("http://example.com/feed"),
           expire |-> PyUnicode("system"), expireTime |-> None])

DownloaderRows ==
    (1 :> [id |-> PyInt(1), state |-> PyUnicode("downloading"),
           type |-> PyUnicode("BitTorrent"), current_size |-> PyInt(1),
           total_size |-> PyInt(2), upload_size |-> PyInt(1)])

IconCacheRows ==
    (1 :> [id |-> PyInt(1), filename |-> PyUnicode("icon.png")])

\* The item tables: each id of ItemIds absent, or a row with each relation
\* present or missing.
ItemTables ==
    UNION {{[k \in present |-> ItemRowOf(k, fk[k][1], fk[k][2], fk[k][3])] :
               fk \in [present -> OptionalId \X OptionalId \X OptionalId]} :
           present \in SUBSET ItemIds}

Init ==
    /\ \E t \in ItemTables :
          db = [item |-> t, feed |-> FeedRows,
                remote_downloader |-> DownloaderRows, icon_cache |-> IconCacheRows]
    /\ fs = {}
    /\ file_size = <<>>
    /\ expire_after_x_days = 6
    /\ filenames_unicode = TRUE
    /\ infos = <<>>
    /\ fetched_ids = {}
    /\ accessed = None
    /\ result = NoResult
    /\ browser = BrowserIdle

Fetch ==
    \E item_ids \in SUBSET ItemIds :
        \E got \in fetch_item_infos(db, item_ids) :
            /\ fetched_ids' = item_ids
            /\ infos' = IF got.kind = "return" THEN got.value ELSE infos
            /\ accessed' = None
            /\ result' = [op |-> "fetch_item_infos", outcome |-> got]
            /\ UNCHANGED <<db, fs, file_size, expire_after_x_days, filenames_unicode, browser>>

Get(i, name) ==
    /\ accessed' = infos[i]
    /\ result' = [op |-> name, outcome |-> getattr(infos[i], name)]
    /\ UNCHANGED <<db, fs, file_size, expire_after_x_days, filenames_unicode, infos,
                   fetched_ids, browser>>

GetDownloaderProperty ==
    \E i \in DOMAIN infos : \E name \in DownloaderProperties : Get(i, name)

GetExpirationDate == \E i \in DOMAIN infos : Get(i, "expiration_date")

GetThumbnail == \E i \in DOMAIN infos : Get(i, "thumbnail")

GetDownloadProgress == \E i \in DOMAIN infos : Get(i, "download_progress")

GetAutoRating == \E i \in DOMAIN infos : Get(i, "auto_rating")

GetSize == \E i \in DOMAIN infos : Get(i, "size")

GetIsExternal == \E i \in DOMAIN infos : Get(i, "is_external")

Next == Fetch \/ GetDownloaderProperty \/ GetExpirationDate

Spec == Init /\ [][Next]_vars

\* The store queried, without reads of the records.
SpecFetch == Init /\ [][Fetch]_vars

----------------------------------------------------------------------------
(* Specifications of single properties: a record is built from a row whose *)
(* columns are drawn from small sets, and the property is read from it.    *)

EmptyStore ==
    [item |-> <<>>, feed |-> <<>>, remote_downloader |-> <<>>, icon_cache |-> <<>>]

\* ItemInfo(*row) for a row of NULLs with id 1.
BaseInfo ==
    ItemInfo([i \in DOMAIN column_info |->
                 IF column_info[i].attr_name = "id" THEN PyInt(1) ELSE None])

Optional(S) == {None} \cup S

InitRecord(records) ==
    /\ db = EmptyStore
    /\ \E r \in records : infos = <<r>>
    /\ fetched_ids = {}
    /\ accessed = None
    /\ result = NoResult
    /\ browser = BrowserIdle

ExpirationRecords ==
    {[BaseInfo EXCEPT !.watched_time = w, !.raw_filename = f, !.keep = k,
                      !.feed_expire = e, !.feed_expire_time = t] :
        w \in Optional({PyDatetime(n) : n \in 0..MaxTime}),
        f \in Optional({PyUnicode("movie.avi")}),
        k \in Optional({PyBool(FALSE), PyBool(TRUE)}),
        e \in Optional({PyUnicode("never"), PyUnicode("feed"), PyUnicode("system"),
                        PyUnicode("bogus"), PyUnicode("")}),
        t \in Optional({PyTimedelta(n) : n \in 1..MaxTime})}

InitExpiration ==
    /\ InitRecord(ExpirationRecords)
    /\ fs = {}
    /\ file_size = <<>>
    /\ expire_after_x_days \in -1..MaxTime
    /\ filenames_unicode = TRUE

SpecExpiration == InitExpiration /\ [][GetExpirationDate]_vars

Paths == {"cover.jpg", "icon.png", "shot.png"}

ThumbnailRecords ==
    {[BaseInfo EXCEPT !.cover_art = c, !.raw_icon_cache_filename = i,
                      !.screenshot = s, !.is_container_item = d, !.file_type = y] :
        c \in Optional({PyUnicode(""), PyUnicode("cover.jpg")}),
        i \in Optional({PyUnicode("icon.png")}),
        s \in Optional({PyUnicode(""), PyUnicode("shot.png")}),
        d \in {PyBool(FALSE), PyBool(TRUE)},
        y \in Optional({PyUnicode("audio"), PyUnicode("video")})}

InitThumbnail ==
    /\ InitRecord(ThumbnailRecords)
    /\ fs \in SUBSET Paths
    /\ file_size = [p \in fs |-> 1]
    /\ expire_after_x_days = 6
    /\ filenames_unicode \in BOOLEAN

SpecThumbnail == InitThumbnail /\ [][GetThumbnail]_vars

Sizes == Optional({PyInt(n) : n \in 0..MaxSize})

DownloadRecords ==
    {[BaseInfo EXCEPT !.downloader_id = PyInt(1),
                      !.downloader_state = PyUnicode("downloading"),
                      !.downloaded_size = c, !.downloader_size = t, !.upload_size = u] :
        c \in Sizes, t \in Sizes, u \in Sizes}

InitDownload ==
    /\ InitRecord(DownloadRecords)
    /\ fs = {}
    /\ file_size = <<>>
    /\ expire_after_x_days = 6
    /\ filenames_unicode = TRUE

SpecDownload == InitDownload /\ [][GetDownloadProgress]_vars

Counts == Optional({PyInt(n) : n \in 0..MaxCount})

RatingRecords ==
    {[BaseInfo EXCEPT !.play_count = p, !.skip_count = k] : p \in Counts, k \in Counts}

InitRating ==
    /\ InitRecord(RatingRecords)
    /\ fs = {}
    /\ file_size = <<>>
    /\ expire_after_x_days = 6
    /\ filenames_unicode = TRUE

SpecRating == InitRating /\ [][GetAutoRating]_vars

SizeRecords ==
    {[BaseInfo EXCEPT !.raw_filename = f, !.downloader_state = d,
                      !.downloader_size = t, !.enclosure_size = e] :
        f \in Optional({PyUnicode("movie.avi")}),
        d \in Optional({PyUnicode("downloading"), PyUnicode("paused"),
                        PyUnicode("uploading"), PyUnicode("failed")}),
        t \in Sizes, e \in Sizes}

InitSize ==
    /\ InitRecord(SizeRecords)
    /\ fs \in SUBSET {"movie.avi"}
    /\ file_size \in [fs -> 0..MaxSize]
    /\ expire_after_x_days = 6
    /\ filenames_unicode \in BOOLEAN

SpecSize == InitSize /\ [][GetSize]_vars

ExternalRecords ==
    {[BaseInfo EXCEPT !.is_file_item = i, !.parent_id = p, !.feed_id = f,
                      !.feed_url = u] :
        i \in Optional({PyBool(FALSE), PyBool(TRUE)}),
        p \in Optional({PyInt(n) : n \in 1..MaxItemId}),
        f \in Optional({PyInt(1)}),
        u \in Optional({PyUnicode("dtv:manualFeed"), PyUnicode("http://example.com/feed")})}

InitExternal ==
    /\ InitRecord(ExternalRecords)
    /\ fs = {}
    /\ file_size = <<>>
    /\ expire_after_x_days = 6
    /\ filenames_unicode = TRUE

SpecExternal == InitExternal /\ [][GetIsExternal]_vars

----------------------------------------------------------------------------
(* Claims about fetch_item_infos and the records it returns. *)

\* The related row of item k in `table`, or the all-NULL row when the
\* foreign key is NULL or names no row.
Related(table, key) ==
    IF key # None /\ key.v \in DOMAIN db[table] THEN db[table][key.v]
    ELSE [c \in {"orig_url", "expire", "expireTime", "filename", "state", "type",
                 "current_size", "total_size", "upload_size"} |-> None]

\* The record the registry prescribes for item k, attribute by attribute.
ExpectedInfo(k) ==
    LET item == db.item[k]
        feed == Related("feed", item.feed_id)
        downloader == Related("remote_downloader", item.downloader_id)
        icon == Related("icon_cache", item.icon_cache_id)
    IN [id |-> item.id, feed_id |-> item.feed_id, parent_id |-> item.parent_id,
        downloader_id |-> item.downloader_id, is_file_item |-> item.is_file_item,
        keep |-> item.keep, watched_time |-> item.watched_time,
        is_container_item |-> item.is_container_item, screenshot |-> item.screenshot,
        enclosure_size |-> item.enclosure_size, raw_filename |-> item.filename,
        play_count |-> item.play_count, skip_count |-> item.skip_count,
        cover_art |-> item.cover_art, file_type |-> item.file_type,
        feed_url |-> feed.orig_url, feed_expire |-> feed.expire,
        feed_expire_time |-> feed.expireTime,
        raw_icon_cache_filename |-> icon.filename,
        downloader_state |-> downloader.state, downloader_type |-> downloader.type,
        downloaded_size |-> downloader.current_size,
        downloader_size |-> downloader.total_size,
        upload_size |-> downloader.upload_size]

\* C9: fetch_item_infos(ids) returns exactly one ItemInfo for each id of ids
\* that is in the item table and none for the others; an item whose feed,
\* remote_downloader or icon_cache row is missing is still returned, with
\* that group's columns all None; each value is the one the registry order
\* assigns to its attribute.
C9_FetchOnePerPresentId ==
    result.op = "fetch_item_infos" =>
        /\ result.outcome = Return(infos)
        /\ \A k \in fetched_ids \cap DOMAIN db.item :
              Cardinality({i \in DOMAIN infos : infos[i] = ExpectedInfo(k)}) = 1
        /\ Len(infos) = Cardinality(fetched_ids \cap DOMAIN db.item)

\* A fetch that asked for an absent id and for an item with no feed, no
\* downloader and no icon-cache row, and returned that item.
C9_Witness ==
    /\ result.op = "fetch_item_infos"
    /\ fetched_ids \ DOMAIN db.item # {}
    /\ \E i \in DOMAIN infos :
          /\ infos[i].feed_id = None
          /\ infos[i].downloader_id = None
          /\ infos[i].raw_icon_cache_filename = None
          /\ infos[i].raw_filename = PyUnicode("movie.avi")

\* C10: fetch_item_infos with an empty id set, or with ids that match no
\* item row, returns the empty list and raises nothing.
C10_FetchNothingIsEmpty ==
    (result.op = "fetch_item_infos" /\ fetched_ids \cap DOMAIN db.item = {}) =>
        (result.outcome = Return(<<>>) /\ infos = <<>>)

\* A fetch with the empty id set from a store that holds items.
C10_Witness ==
    /\ result.op = "fetch_item_infos"
    /\ fetched_ids = {}
    /\ DOMAIN db.item # {}
    /\ result.outcome.kind = "return"

\* C2 (as claimed): for an ItemInfo whose downloader_id is None, every
\* downloader-derived property returns None or a false value and raises nothing.
C2_NullDownloaderNeverRaises ==
    (result.op \in DownloaderProperties /\ accessed.downloader_id = None) =>
        (result.outcome.kind = "return" /\ ~Truthy(result.outcome.value))

\* C6 (as claimed): for a record whose feed row is missing, expiration_date
\* returns None and raises nothing.
C6_MissingFeedExpirationIsNone ==
    (result.op = "expiration_date" /\ accessed.feed_id = None) =>
        result.outcome = Return(None)

----------------------------------------------------------------------------
(* Claims about expiration_date. *)

\* The record is watched, has a file and is not kept.
MayExpire(info) ==
    /\ info.watched_time # None
    /\ info.raw_filename # None
    /\ info.keep = PyBool(FALSE)

\* C1 (as claimed): with watched_time set, a filename, keep false and
\* feed_expire = "feed", expiration_date returns watched_time +
\* feed_expire_time and does not fail.
C1_FeedPolicyAddsFeedExpireTime ==
    (/\ result.op = "expiration_date"
     /\ MayExpire(accessed)
     /\ accessed.feed_expire = PyUnicode("feed")
     /\ accessed.feed_expire_time # None) =>
        result.outcome =
            Return(PyDatetime(accessed.watched_time.v + accessed.feed_expire_time.v))

\* C7: expiration_date is None whenever watched_time is None, or there is
\* no filename, or keep is true, whatever feed_expire is; and it is None
\* when feed_expire = "never", and when feed_expire = "system" with a
\* configured day count <= 0.
C7_ExpirationNoneCases ==
    result.op = "expiration_date" =>
        /\ (\/ accessed.watched_time = None
            \/ accessed.raw_filename = None
            \/ accessed.keep = PyBool(TRUE)) => result.outcome = Return(None)
        /\ accessed.feed_expire = PyUnicode("never") => result.outcome = Return(None)
        /\ (accessed.feed_expire = PyUnicode("system") /\ expire_after_x_days <= 0)
              => result.outcome = Return(None)

\* A watched, unkept record with a file under the "system" policy and a
\* configured count of 0 days, whose expiration_date was read.
C7_Witness ==
    /\ result.op = "expiration_date"
    /\ MayExpire(accessed)
    /\ accessed.feed_expire = PyUnicode("system")
    /\ expire_after_x_days = 0
    /\ result.outcome = Return(None)

----------------------------------------------------------------------------
(* Claims about download_progress. *)

\* C3 (as claimed): download_progress is None whenever downloader_size is
\* None, for every downloaded_size; 0.0 only when the total is known and
\* downloaded_size is None or 0; otherwise downloaded_size / downloader_size.
C3_ProgressNoneWhenTotalUnknown ==
    result.op = "download_progress" =>
        LET done == accessed.downloaded_size
            total == accessed.downloader_size
        IN IF total = None THEN result.outcome = Return(None)
           ELSE IF done \in {None, PyInt(0)}
           THEN result.outcome = Return(PyFloat(0, 1))
           ELSE total.v # 0 => result.outcome = Return(PyFloat(done.v, total.v))

\* C3 (amended): download_progress is 0.0 whenever downloaded_size is None
\* or 0, also when the total size is unknown; it is None when
\* downloaded_size is non-zero and downloader_size is None; otherwise it is
\* downloaded_size / downloader_size, which raises ZeroDivisionError when
\* downloader_size is 0.
C3_ProgressZeroBeforeTotal ==
    result.op = "download_progress" =>
        LET done == accessed.downloaded_size
            total == accessed.downloader_size
        IN IF done \in {None, PyInt(0)} THEN result.outcome = Return(PyFloat(0, 1))
           ELSE IF total = None THEN result.outcome = Return(None)
           ELSE IF total.v = 0 THEN result.outcome = Raise("ZeroDivisionError")
           ELSE /\ result.outcome.kind = "return"
                /\ result.outcome.value.t = "float"
                /\ result.outcome.value.n * total.v = done.v * result.outcome.value.d

\* download_progress read with nothing downloaded yet and the total unknown.
C3_Witness ==
    /\ result.op = "download_progress"
    /\ accessed.downloaded_size \in {None, PyInt(0)}
    /\ accessed.downloader_size = None
    /\ result.outcome = Return(PyFloat(0, 1))

----------------------------------------------------------------------------
(* Claims about thumbnail. *)

\* A path column holds a path, and that path is on disk.
IsSet(v) == v # None /\ v.v # ""
OnDisk(v) == IsSet(v) /\ v.v \in fs

\* The outcome is the path held by column v.
ReturnsPath(outcome, v) ==
    outcome.kind = "return" /\ StrEq(outcome.value, v.v) /\ IsSet(v)

ReturnsDefault(outcome, info) ==
    outcome = Return(resources_path(
        IF info.is_container_item = PyBool(TRUE) THEN "images/thumb-default-folder.png"
        ELSE IF info.file_type = PyUnicode("audio")
        THEN "images/thumb-default-audio.png"
        ELSE "images/thumb-default-video.png"))

\* C4 (as claimed): when neither the cover-art file nor the icon-cache file
\* is on disk and screenshot is set, thumbnail returns the screenshot path
\* whether or not the screenshot file is on disk.
C4_ScreenshotNotProbed ==
    (/\ result.op = "thumbnail"
     /\ ~OnDisk(accessed.cover_art)
     /\ ~OnDisk(accessed.raw_icon_cache_filename)
     /\ IsSet(accessed.screenshot)) =>
        ReturnsPath(result.outcome, accessed.screenshot)

\* C4 (amended): when neither the cover-art file nor the icon-cache file is
\* on disk and screenshot is set, thumbnail returns the screenshot path if
\* the screenshot file is on disk, and the default image otherwise.
C4_ScreenshotProbed ==
    (/\ result.op = "thumbnail"
     /\ ~OnDisk(accessed.cover_art)
     /\ ~OnDisk(accessed.raw_icon_cache_filename)
     /\ IsSet(accessed.screenshot)) =>
        IF OnDisk(accessed.screenshot)
        THEN ReturnsPath(result.outcome, accessed.screenshot)
        ELSE ReturnsDefault(result.outcome, accessed)

\* thumbnail read with no cover art or icon on disk and a screenshot column
\* naming a file that is not on disk.
C4_Witness ==
    /\ result.op = "thumbnail"
    /\ ~OnDisk(accessed.cover_art)
    /\ ~OnDisk(accessed.raw_icon_cache_filename)
    /\ IsSet(accessed.screenshot)
    /\ ~OnDisk(accessed.screenshot)
    /\ result.outcome.kind = "return"

\* C5 (as claimed): thumbnail is the first step that applies of: cover art
\* (set and on disk), icon cache (set and on disk), screenshot (set),
\* default folder image, default audio image, default video image.
C5_ChainWithUnprobedScreenshot ==
    result.op = "thumbnail" =>
        IF OnDisk(accessed.cover_art)
        THEN ReturnsPath(result.outcome, accessed.cover_art)
        ELSE IF OnDisk(accessed.raw_icon_cache_filename)
        THEN ReturnsPath(result.outcome, accessed.raw_icon_cache_filename)
        ELSE IF IsSet(accessed.screenshot)
        THEN ReturnsPath(result.outcome, accessed.screenshot)
        ELSE ReturnsDefault(result.outcome, accessed)

\* C5 (amended): thumbnail is the first step that applies of: cover art
\* (set and on disk), icon cache (set and on disk), screenshot (set and on
\* disk), default folder image, default audio image, default video image.
C5_StrictFallbackChain ==
    result.op = "thumbnail" =>
        IF OnDisk(accessed.cover_art)
        THEN ReturnsPath(result.outcome, accessed.cover_art)
        ELSE IF OnDisk(accessed.raw_icon_cache_filename)
        THEN ReturnsPath(result.outcome, accessed.raw_icon_cache_filename)
        ELSE IF OnDisk(accessed.screenshot)
        THEN ReturnsPath(result.outcome, accessed.screenshot)
        ELSE ReturnsDefault(result.outcome, accessed)

\* thumbnail read with cover_art set but missing on disk and the icon-cache
\* file present: the icon-cache path is returned.
C5_Witness ==
    /\ result.op = "thumbnail"
    /\ IsSet(accessed.cover_art)
    /\ ~OnDisk(accessed.cover_art)
    /\ OnDisk(accessed.raw_icon_cache_filename)
    /\ OnDisk(accessed.screenshot)
    /\ ReturnsPath(result.outcome, accessed.raw_icon_cache_filename)

----------------------------------------------------------------------------
(* Claims about auto_rating. *)

----------------------------------------------------------------------------
(* Claims about size and is_external. *)

\* C11: size is, first applicable wins: with a filename, the size of the
\* file on disk, or None if the lookup fails (never the downloader or
\* enclosure size); else, while downloading or paused, downloader_size;
\* else enclosure_size.
C11_SizePriority ==
    result.op = "size" =>
        IF accessed.raw_filename # None
        THEN IF accessed.raw_filename.v \in fs
             THEN result.outcome = Return(PyInt(file_size[accessed.raw_filename.v]))
             ELSE result.outcome = Return(None)
        ELSE IF accessed.downloader_state \in {PyUnicode("downloading"), PyUnicode("paused")}
        THEN result.outcome = Return(accessed.downloader_size)
        ELSE result.outcome = Return(accessed.enclosure_size)

\* size read from a record whose file is gone from the disk while its
\* download is still listed with a known total and an enclosure size.
C11_Witness ==
    /\ result.op = "size"
    /\ accessed.raw_filename # None
    /\ accessed.raw_filename.v \notin fs
    /\ accessed.downloader_state = PyUnicode("downloading")
    /\ accessed.downloader_size = PyInt(2)
    /\ accessed.enclosure_size = PyInt(3)
    /\ result.outcome = Return(None)

\* C12: is_external is true exactly when (is_file_item and parent_id is not
\* None) or (not is_file_item and feed_url = "dtv:manualFeed").
C12_IsExternal ==
    result.op = "is_external" =>
        result.outcome =
            Return(PyBool(
                \/ (accessed.is_file_item = PyBool(TRUE) /\ accessed.parent_id # None)
                \/ (accessed.is_file_item # PyBool(TRUE)
                    /\ accessed.feed_url = PyUnicode("dtv:manualFeed"))))

\* is_external read from a file item without a parent whose feed_url is
\* the manual-feed URL: it is false.
C12_Witness ==
    /\ result.op = "is_external"
    /\ accessed.is_file_item = PyBool(TRUE)
    /\ accessed.parent_id = None
    /\ accessed.feed_url = PyUnicode("dtv:manualFeed")
    /\ result.outcome = Return(PyBool(FALSE))

----------------------------------------------------------------------------
(* The unrecognized expiration policy. *)

\* C13: with watched_time set, a filename and keep false, a feed_expire
\* that is not None and is none of "never", "feed", "system" makes
\* expiration_date raise AssertionError; it returns neither None nor a date.
C13_UnknownPolicyAsserts ==
    (/\ result.op = "expiration_date"
     /\ MayExpire(accessed)
     /\ accessed.feed_expire # None
     /\ accessed.feed_expire \notin
            {PyUnicode("never"), PyUnicode("feed"), PyUnicode("system")}) =>
        result.outcome = Raise("AssertionError")

\* expiration_date read from a watched, unkept record with a file whose
\* feed_expire is an unknown word.
C13_Witness ==
    /\ result.op = "expiration_date"
    /\ MayExpire(accessed)
    /\ accessed.feed_expire = PyUnicode("bogus")
    /\ result.outcome = Raise("AssertionError")

----------------------------------------------------------------------------
(* Browser (src/tv/portable/frontends/widgets/browser.py).  A URL is the   *)
(* text up to and including its first colon (empty when it has none),      *)
(* whether it arrives as unicode, and what subscription, guide and         *)
(* filetypes say about it.                                                 *)

PROTOCOLS_MIRO_HANDLES == <<"http:", "https:", "ftp:", "feed:", "feeds:", "mailto:">>

Schemes == {"http:", "https:", "ftp:", "feed:", "feeds:", "mailto:", "javascript:", ""}

Urls ==
    [t : {"str", "unicode"}, scheme : Schemes, subscribe : BOOLEAN,
     guide : BOOLEAN, feed_filename : BOOLEAN, allowed_filename : BOOLEAN]

\* util.toUni(url)
toUni(url) == [url EXCEPT !.t = "unicode"]

\* url.startswith(mem), for a mem that ends with its only colon.
startswith(url, mem) == url.scheme = mem

should_miro_handle(url) ==
    \E i \in DOMAIN PROTOCOLS_MIRO_HANDLES : startswith(url, PROTOCOLS_MIRO_HANDLES[i])

is_subscribe_link(url) == url.subscribe
isPartOfGuide(url) == url.guide
isFeedFilename(url) == url.feed_filename
isAllowedFilename(url) == url.allowed_filename

\* should_load_url testing the guide before the subscribe link.
should_load_url_guide_first(raw_url) ==
    LET url == toUni(raw_url)
    IN IF isPartOfGuide(url) /\ ~isFeedFilename(url) /\ ~isAllowedFilename(url)
       THEN [effect |-> "none", url |-> url, retval |-> TRUE]
       ELSE IF is_subscribe_link(url)
       THEN [effect |-> "send_to_backend", url |-> url, retval |-> FALSE]
       ELSE IF ~should_miro_handle(url)
       THEN [effect |-> "none", url |-> url, retval |-> TRUE]
       ELSE [effect |-> "call_on_ui_thread", url |-> url, retval |-> FALSE]

\* Browser.should_load_url: what it does before returning, and what it returns.
should_load_url(raw_url) ==
    LET url == toUni(raw_url)
    IN IF is_subscribe_link(url)
       THEN [effect |-> "send_to_backend", url |-> url, retval |-> FALSE]
       ELSE IF isPartOfGuide(url) /\ ~isFeedFilename(url) /\ ~isAllowedFilename(url)
       THEN [effect |-> "none", url |-> url, retval |-> TRUE]
       ELSE IF ~should_miro_handle(url)
       THEN [effect |-> "none", url |-> url, retval |-> TRUE]
       ELSE [effect |-> "call_on_ui_thread", url |-> url, retval |-> FALSE]

itemVars ==
    <<db, fs, file_size, expire_after_x_days, filenames_unicode, infos, fetched_ids,
      accessed, result>>

InitBrowser ==
    /\ db = EmptyStore
    /\ fs = {}
    /\ file_size = <<>>
    /\ expire_after_x_days = 6
    /\ filenames_unicode = TRUE
    /\ infos = <<>>
    /\ fetched_ids = {}
    /\ accessed = None
    /\ result = NoResult
    /\ browser = BrowserIdle

\* The web view offers a URL: should_load_url is entered.
ShouldLoadUrlCalled ==
    /\ browser.pc = "idle"
    /\ Len(browser.returned) < MaxLoads
    /\ \E url \in Urls : browser' = [browser EXCEPT !.pc = "body", !.url = url]
    /\ UNCHANGED itemVars

\* The body of should_load_url, up to its return statement.
ShouldLoadUrlBody ==
    /\ browser.pc = "body"
    /\ LET did == should_load_url(browser.url)
           entry == [call |-> Len(browser.returned) + 1, url |-> did.url]
       IN browser' =
            [browser EXCEPT
                !.pc = "return",
                !.retval = PyBool(did.retval),
                !.sent = IF did.effect = "send_to_backend" THEN Append(@, entry) ELSE @,
                !.ui_queue = IF did.effect = "call_on_ui_thread" THEN Append(@, entry)
                             ELSE @]
    /\ UNCHANGED itemVars

\* should_load_url returns to the web view.
ShouldLoadUrlReturns ==
    /\ browser.pc = "return"
    /\ browser' = [browser EXCEPT !.pc = "idle", !.url = None, !.retval = None,
                                  !.returned = Append(@, browser.retval.v)]
    /\ UNCHANGED itemVars

\* The UI thread, out of the callback, runs the next call handed to
\* call_on_ui_thread: linkhandler.handle_external_url(url).
RunOnUiThread ==
    /\ browser.pc = "idle"
    /\ browser.ui_queue # <<>>
    /\ browser' = [browser EXCEPT !.ui_queue = Tail(@),
                                  !.handled = Append(@, Head(browser.ui_queue))]
    /\ UNCHANGED itemVars

NextBrowser ==
    ShouldLoadUrlCalled \/ ShouldLoadUrlBody \/ ShouldLoadUrlReturns \/ RunOnUiThread

SpecBrowser == InitBrowser /\ [][NextBrowser]_vars

----------------------------------------------------------------------------
(* Claim about Browser.should_load_url. *)

\* The entries of a log made by the k-th call of should_load_url.
EntriesOf(log, k) == {i \in DOMAIN log : log[i].call = k}
CountOf(log, k) == Cardinality(EntriesOf(log, k))

\* C14: should_load_url has one outcome per URL, decided in this order: a
\* subscribe link sends one message to the backend and returns False; else
\* a guide URL that is no feed filename and no allowed filename returns
\* True; else a URL starting with none of http:, https:, ftp:, feed:,
\* feeds:, mailto: returns True; else handle_external_url is scheduled and
\* False is returned.  The handler is scheduled only when False is
\* returned, runs only after should_load_url has returned, and per URL at
\* most one of {backend message, handler call} happens, none when True is
\* returned.
C14_OneOutcomePerUrl ==
    LET done == Len(browser.returned)
        now == done + 1
        Messages(k) == CountOf(browser.sent, k)
        Scheduled(k) == CountOf(browser.ui_queue, k) + CountOf(browser.handled, k)
    IN /\ \A k \in 1..now : Messages(k) + Scheduled(k) <= 1
       /\ \A k \in 1..done :
             IF browser.returned[k] THEN Messages(k) + Scheduled(k) = 0
             ELSE Messages(k) + Scheduled(k) = 1
       /\ \A i \in DOMAIN browser.handled : browser.handled[i].call <= done
       /\ browser.pc = "body" => Messages(now) + Scheduled(now) = 0
       /\ browser.pc = "return" =>
             LET url == browser.url
                 text == [url EXCEPT !.t = "unicode"]
             IN IF url.subscribe
                THEN /\ browser.retval = PyBool(FALSE)
                     /\ Scheduled(now) = 0
                     /\ \E i \in DOMAIN browser.sent :
                           browser.sent[i] = [call |-> now, url |-> text]
                ELSE IF url.guide /\ ~url.feed_filename /\ ~url.allowed_filename
                THEN browser.retval = PyBool(TRUE) /\ Messages(now) + Scheduled(now) = 0
                ELSE IF url.scheme \notin
                          {"http:", "https:", "ftp:", "feed:", "feeds:", "mailto:"}
                THEN browser.retval = PyBool(TRUE) /\ Messages(now) + Scheduled(now) = 0
                ELSE /\ browser.retval = PyBool(FALSE)
                     /\ Messages(now) = 0
                     /\ \E i \in DOMAIN browser.ui_queue :
                           browser.ui_queue[i] = [call |-> now, url |-> text]

\* A mailto: URL of the guide that is an allowed filename was refused with
\* False, and handle_external_url has since run for it.
C14_Witness ==
    /\ browser.pc = "idle"
    /\ browser.returned = <<FALSE>>
    /\ browser.sent = <<>>
    /\ \E i \in DOMAIN browser.handled :
          /\ browser.handled[i].call = 1
          /\ browser.handled[i].url.scheme = "mailto:"
          /\ browser.handled[i].url.guide
          /\ browser.handled[i].url.allowed_filename

====
